---- MODULE Spec2Model ----
(***************************************************************************)
(* WikiGraph Embeddings Service (src/python/main.py).                      *)
(*                                                                         *)
(* A FastAPI service around one process-wide sentence-transformers model.  *)
(* Every request is validated by its pydantic request class and then       *)
(* served by its endpoint handler.  The handlers are `async def` bodies    *)
(* without any await, so each one runs to completion as one step.          *)
(*                                                                         *)
(* Representation.                                                         *)
(*   - A string is a character repeated len times: [ch, len].  Validation  *)
(*     reads only its length, the model only its content.                  *)
(*   - Floats are fixed-point integers, ScoreScale units to 1.0.           *)
(*   - Python positions are 0-based; sequences here are 1-based and the    *)
(*     handlers convert when they report an index.                         *)
(*   - The model handle is an opaque, deterministic text -> vector map.    *)
(***************************************************************************)
EXTENDS Integers, Sequences, FiniteSets, TLC

VARIABLES
    model,      \* main.py:33  the process-wide model handle
    pc,         \* per request: "idle", "received", "handling", "done"
    payload,    \* per request: the HTTP request [path, body] as received
    response,   \* per request: the HTTP response [status, body]
    calls,      \* per request: the library calls the handler made, in order
    raised      \* per request: the exception raised while it was handled

vars == <<model, pc, payload, response, calls, raised>>

(***************************************************************************)
(* Bounds of the model and constants of the program.                       *)
(***************************************************************************)
MaxPermLen == 3         \* arrays up to this length get every tie order

MinLength == 1          \* min_length=1
MinItems == 1           \* min_items=1
MinTopK == 1            \* SimilarityBatchRequest.top_k ge
MaxTextLength == 10000  \* max_length=10000
MaxTexts == 100         \* EmbedBatchRequest.texts max_items
MaxCandidates == 1000   \* SimilarityBatchRequest.candidates max_items
MaxTopK == 100          \* SimilarityBatchRequest.top_k le
DefaultTopK == 10       \* SimilarityBatchRequest.top_k default
ScoreScale == 100       \* fixed-point unit of a float score

Reqs == {1, 2}

MODEL_NAME == "all-MiniLM-L6-v2"

(***************************************************************************)
(* Values.                                                                 *)
(***************************************************************************)
Str(c, n) == [ch |-> c, len |-> n]
EmptyStr == Str("", 0)
StrLen(s) == s.len

\* JSON values of the optional integer field top_k
Absent == [t |-> "absent", v |-> 0]
None == [t |-> "null", v |-> 0]
Int_(n) == [t |-> "int", v |-> n]

Min(a, b) == IF a <= b THEN a ELSE b

\* a comprehension evaluated once into a list / array
List(f) == SubSeq(f, 1, Len(f))

(***************************************************************************)
(* The model handle: SentenceTransformer(MODEL_NAME).  Two handles the     *)
(* environment variable can select: one with normalised embeddings, one    *)
(* with unnormalised embeddings and a zero vector.                         *)
(***************************************************************************)
NormalisedEmb(c) ==
    CASE c = "a" -> <<5, 0>>
      [] c = "b" -> <<3, 4>>
      [] c = "c" -> <<3, -4>>
      [] OTHER   -> <<0, 5>>

RawEmb(c) ==
    CASE c = "a" -> <<4, 3>>
      [] c = "b" -> <<0, 0>>
      [] c = "c" -> <<8, 6>>
      [] OTHER   -> <<0, 0>>

Models ==
    { [name |-> MODEL_NAME, dim |-> 2, normalised |-> TRUE],
      [name |-> MODEL_NAME, dim |-> 2, normalised |-> FALSE] }

\* model.encode(text) for one string
Encode(m, s) ==
    LET c == IF StrLen(s) = 0 THEN "" ELSE s.ch
    IN IF m.normalised THEN NormalisedEmb(c) ELSE RawEmb(c)

\* faulty variant: the rows come back in the model's internal batching order
EncodeBatchReordered(m, texts) ==
    List([i \in 1..Len(texts) |-> Encode(m, texts[Len(texts) + 1 - i])])

\* model.encode(texts) for a list: one row per text, in input order
EncodeBatch(m, texts) == List([i \in 1..Len(texts) |-> Encode(m, texts[i])])

\* model.get_sentence_embedding_dimension()
Dimension(m) == m.dim

(***************************************************************************)
(* sklearn.metrics.pairwise.cosine_similarity: rows are normalised (a zero *)
(* norm is replaced by 1) and multiplied.                                  *)
(***************************************************************************)
Dot(a, b) == a[1] * b[1] + a[2] * b[2]

Isqrt(x) == CHOOSE r \in 0..x : r * r <= x /\ x < (r + 1) * (r + 1)

Norm(a) == LET n == Isqrt(Dot(a, a)) IN IF n = 0 THEN 1 ELSE n

Cosine(a, b) ==
    LET num == Dot(a, b) * ScoreScale
        den == Norm(a) * Norm(b)
    IN IF num >= 0 THEN num \div den ELSE -((-num) \div den)

\* cosine_similarity(X, Y): matrix with one row per row of X
CosineSimilarity(X, Y) ==
    List([i \in 1..Len(X) |-> List([j \in 1..Len(Y) |-> Cosine(X[i], Y[j])])])

(***************************************************************************)
(* numpy.  argsort's default kind is an unstable sort: elements with equal *)
(* keys come out in an order the array's content does not fix.  `tie` is   *)
(* the priority the run gives to each position among equal keys: every     *)
(* priority for arrays up to MaxPermLen, and for longer arrays the two     *)
(* extreme ones (input order and its reverse).                             *)
(***************************************************************************)
TieOrders(n) ==
    IF n <= MaxPermLen
    THEN Permutations(1..n)
    ELSE { [i \in 1..n |-> i], [i \in 1..n |-> n + 1 - i] }

\* np.argsort(s): the positions of s in ascending order of value
Argsort(s, tie) ==
    LET n == Len(s)
        Before(j, i) == s[j] < s[i] \/ (s[j] = s[i] /\ tie[j] < tie[i])
        P == { <<Cardinality({j \in 1..n : Before(j, i)}) + 1, i>> : i \in 1..n }
    IN List([k \in 1..n |-> (CHOOSE p \in P : p[1] = k)[2]])

\* faulty variant: the [::-1] is left out
ReverseOmitted(s) == s

\* s[::-1]
Reverse(s) == List([k \in 1..Len(s) |-> s[Len(s) + 1 - k]])

\* faulty variant: a missing k falls back to the default (k or 10)
SliceOrDefault(s, k) ==
    IF k = None THEN SubSeq(s, 1, Min(DefaultTopK, Len(s)))
    ELSE SubSeq(s, 1, Min(k.v, Len(s)))

\* s[:k] for k None or a positive integer
Slice(s, k) == IF k = None THEN s ELSE SubSeq(s, 1, Min(k.v, Len(s)))

(***************************************************************************)
(* Request classes (pydantic Field constraints).                           *)
(***************************************************************************)
\* faulty variant: the upper bound is exclusive
StrFieldExclusive(s, min_length, max_length) ==
    min_length <= StrLen(s) /\ StrLen(s) < max_length

StrField(s, min_length, max_length) ==
    min_length <= StrLen(s) /\ StrLen(s) <= max_length

ListField(l, min_items, max_items) ==
    min_items <= Len(l) /\ Len(l) <= max_items

\* Optional[int]: None passes, the range is applied to integers
OptionalIntField(x, ge, le) ==
    x = None \/ (x.t = "int" /\ ge <= x.v /\ x.v <= le)

EmbedRequest(body) == StrField(body.text, MinLength, MaxTextLength)

\* faulty variant: List[constr(min_length=1, max_length=10000)]
EmbedBatchRequestItems(body) ==
    /\ ListField(body.texts, MinItems, MaxTexts)
    /\ \A i \in 1..Len(body.texts) : StrField(body.texts[i], MinLength, MaxTextLength)

EmbedBatchRequest(body) == ListField(body.texts, MinItems, MaxTexts)

SimilarityRequest(body) ==
    /\ StrField(body.text1, MinLength, MaxTextLength)
    /\ StrField(body.text2, MinLength, MaxTextLength)

\* the value of request.top_k: the default when the field is not supplied
TopK(body) == IF body.top_k = Absent THEN Int_(DefaultTopK) ELSE body.top_k

SimilarityBatchRequest(body) ==
    /\ StrField(body.query, MinLength, MaxTextLength)
    /\ ListField(body.candidates, MinItems, MaxCandidates)
    /\ (body.top_k = Absent \/ OptionalIntField(body.top_k, MinTopK, MaxTopK))

\* FastAPI: the body is validated against the endpoint's request class
RequestValid(p) ==
    CASE p.path = "/embed"            -> EmbedRequest(p.body)
      [] p.path = "/embed/batch"      -> EmbedBatchRequest(p.body)
      [] p.path = "/similarity"       -> SimilarityRequest(p.body)
      [] p.path = "/similarity/batch" -> SimilarityBatchRequest(p.body)
      [] OTHER                        -> TRUE

(***************************************************************************)
(* Responses and injected failures.                                        *)
(***************************************************************************)
NoResponse == [status |-> 0, body |-> <<>>]
Ok(body) == [status |-> 200, body |-> body]
ValidationError == [status |-> 422, body |-> [detail |-> "validation error"]]
\* raise HTTPException(status_code=500, detail=str(e))
HTTPException(status_code, detail) == [status |-> status_code, body |-> [detail |-> detail]]
\* an exception no handler catches: the framework's plain 500
UnhandledError == [status |-> 500, body |-> [text |-> "Internal Server Error"]]

Messages == {"CUDA out of memory", "input too long"}
NoFault == [at |-> 0, msg |-> ""]
\* which of the handler's n library calls raises, and with what message
Faults(n) == {NoFault} \cup { [at |-> k, msg |-> e] : k \in 1..n, e \in Messages }

Call(fn, arg) == [fn |-> fn, arg |-> arg]
Outcome(resp, cs, fault) ==
    [response |-> resp, calls |-> cs, raised |-> IF fault = NoFault THEN "" ELSE fault.msg]

(***************************************************************************)
(* Endpoint handlers: what each returns for a validated request, given     *)
(* which of its library calls (if any) raises.  Every POST handler wraps   *)
(* its body in try / except Exception -> HTTPException(500, str(e));       *)
(* health_check has no try block.                                          *)
(***************************************************************************)
health_check(m, fault) ==
    LET c1 == Call("get_sentence_embedding_dimension", <<>>)
    IN IF fault.at = 1
       THEN Outcome(UnhandledError, <<c1>>, fault)
       ELSE Outcome(Ok([status |-> "ok", model |-> MODEL_NAME,
                        model_dimensions |-> Dimension(m)]), <<c1>>, fault)

embed_text(m, body, fault) ==
    LET c1 == Call("encode", body.text)
        vector == Encode(m, body.text)
    IN IF fault.at = 1
       THEN Outcome(HTTPException(500, fault.msg), <<c1>>, fault)
       ELSE Outcome(Ok([vector |-> vector, dimensions |-> Len(vector),
                        model |-> MODEL_NAME]), <<c1>>, fault)

embed_batch(m, body, fault) ==
    LET c1 == Call("encode", body.texts)
        vectors == EncodeBatch(m, body.texts)
    IN IF fault.at = 1
       THEN Outcome(HTTPException(500, fault.msg), <<c1>>, fault)
       ELSE Outcome(Ok([vectors |-> vectors, count |-> Len(vectors),
                        dimensions |-> IF vectors # <<>> THEN Len(vectors[1]) ELSE 0,
                        model |-> MODEL_NAME]), <<c1>>, fault)

calculate_similarity(m, body, fault) ==
    LET c1 == Call("encode", <<body.text1, body.text2>>)
        c2 == Call("cosine_similarity", <<>>)
        embeddings == EncodeBatch(m, <<body.text1, body.text2>>)
        score == CosineSimilarity(<<embeddings[1]>>, <<embeddings[2]>>)[1][1]
    IN IF fault.at = 1
       THEN Outcome(HTTPException(500, fault.msg), <<c1>>, fault)
       ELSE IF fault.at = 2
       THEN Outcome(HTTPException(500, fault.msg), <<c1, c2>>, fault)
       ELSE Outcome(Ok([score |-> score, text1 |-> body.text1,
                        text2 |-> body.text2]), <<c1, c2>>, fault)

\* faulty variant: the index is reported 1-based
ResultOneBased(candidates, similarities, i) ==
    [text |-> candidates[i], score |-> similarities[i], index |-> i]

\* one entry of results, for position i of candidates (0-based in the reply)
Result(candidates, similarities, i) ==
    [text |-> candidates[i], score |-> similarities[i], index |-> i - 1]

find_similar(m, body, fault, tie) ==
    LET c1 == Call("encode", <<body.query>>)
        c2 == Call("encode", body.candidates)
        c3 == Call("cosine_similarity", <<>>)
        query_embedding == EncodeBatch(m, <<body.query>>)[1]
        candidate_embeddings == EncodeBatch(m, body.candidates)
        similarities == CosineSimilarity(<<query_embedding>>, candidate_embeddings)[1]
        indices == Slice(Reverse(Argsort(similarities, tie)), TopK(body))
        results == List([k \in 1..Len(indices) |->
                           Result(body.candidates, similarities, indices[k])])
    IN IF fault.at = 1
       THEN Outcome(HTTPException(500, fault.msg), <<c1>>, fault)
       ELSE IF fault.at = 2
       THEN Outcome(HTTPException(500, fault.msg), <<c1, c2>>, fault)
       ELSE IF fault.at = 3
       THEN Outcome(HTTPException(500, fault.msg), <<c1, c2, c3>>, fault)
       ELSE Outcome(Ok([query |-> body.query, results |-> results]),
                    <<c1, c2, c3>>, fault)

root ==
    Outcome(Ok([service |-> "WikiGraph Embeddings", version |-> "0.1.0",
                model |-> MODEL_NAME, docs |-> "/docs"]), <<>>, NoFault)

(***************************************************************************)
(* Requests the clients send.                                              *)
(***************************************************************************)
Request(path, body) == [path |-> path, body |-> body]
NoRequest == Request("", <<>>)

a1 == Str("a", 1)
b1 == Str("b", 1)
c1 == Str("c", 1)

\* n one-character texts cycling through a, b, c
Mixed(n) == List([i \in 1..n |-> CASE i % 3 = 1 -> a1 [] i % 3 = 2 -> b1 [] OTHER -> c1])

EmbedInputs ==
    { Request("/embed", [text |-> t]) :
        t \in {EmptyStr, a1, Str("b", MaxTextLength), Str("a", MaxTextLength + 1)} }

EmbedBatchInputs ==
    { Request("/embed/batch", [texts |-> ts]) :
        ts \in { <<>>, <<a1>>, <<b1, a1>>, <<a1, EmptyStr, Str("c", MaxTextLength + 1)>>,
                 Mixed(MaxTexts), Mixed(MaxTexts + 1) } }

SimilarityInputs ==
    { Request("/similarity", [text1 |-> p[1], text2 |-> p[2]]) :
        p \in { <<a1, b1>>, <<a1, a1>>, <<b1, c1>>, <<EmptyStr, b1>>,
                <<a1, Str("b", MaxTextLength + 1)>>, <<Str("c", MaxTextLength), a1>> } }

SmallCandidates ==
    { <<b1>>, <<b1, c1>>, <<a1, a1>>, <<c1, a1, b1>>, <<b1, c1, b1>>,
      <<a1, EmptyStr, Str("b", MaxTextLength + 1)>>, <<b1, c1, a1, c1>> }

SimilarityBatchInputs ==
    { Request("/similarity/batch", [query |-> q, candidates |-> cs, top_k |-> k]) :
        q \in {a1, b1}, cs \in SmallCandidates,
        k \in {Absent, None, Int_(1), Int_(2), Int_(MaxTopK)} }
    \cup
    { Request("/similarity/batch", [query |-> x[1], candidates |-> x[2], top_k |-> x[3]]) :
        x \in { <<EmptyStr, <<b1>>, Absent>>,
                <<Str("a", MaxTextLength), <<b1, c1>>, Absent>>,
                <<Str("a", MaxTextLength + 1), <<b1, c1>>, Absent>>,
                <<a1, <<>>, Absent>>,
                <<a1, <<b1, c1>>, Int_(0)>>,
                <<a1, <<b1, c1>>, Int_(MaxTopK + 1)>>,
                <<a1, Mixed(MaxTopK + 1), Absent>>,
                <<a1, Mixed(MaxTopK + 1), None>>,
                <<b1, Mixed(MaxTopK + 1), Int_(MaxTopK)>>,
                <<a1, Mixed(MaxCandidates), Absent>>,
                <<a1, Mixed(MaxCandidates + 1), Absent>> } }

Payloads ==
    {Request("/health", <<>>), Request("/", <<>>)}
    \cup EmbedInputs \cup EmbedBatchInputs \cup SimilarityInputs \cup SimilarityBatchInputs

\* the requests of the concurrent specification
ConcPayloads ==
    { Request("/health", <<>>), Request("/", <<>>),
      Request("/embed", [text |-> a1]), Request("/embed", [text |-> EmptyStr]),
      Request("/embed/batch", [texts |-> <<b1, a1>>]),
      Request("/similarity", [text1 |-> a1, text2 |-> b1]),
      Request("/similarity/batch", [query |-> a1, candidates |-> <<b1, c1>>, top_k |-> Int_(1)]),
      Request("/similarity/batch", [query |-> b1, candidates |-> <<c1, a1, b1>>, top_k |-> None]) }

(***************************************************************************)
(* The service.                                                            *)
(***************************************************************************)
Init ==
    /\ model \in Models
    /\ pc = [r \in Reqs |-> "idle"]
    /\ payload = [r \in Reqs |-> NoRequest]
    /\ response = [r \in Reqs |-> NoResponse]
    /\ calls = [r \in Reqs |-> <<>>]
    /\ raised = [r \in Reqs |-> ""]

\* a client's request arrives
Receive(r, inputs) ==
    /\ pc[r] = "idle"
    /\ \E p \in inputs : payload' = [payload EXCEPT ![r] = p]
    /\ pc' = [pc EXCEPT ![r] = "received"]
    /\ UNCHANGED <<model, response, calls, raised>>

\* the body is parsed into the endpoint's request class, or refused
Validate(r) ==
    /\ pc[r] = "received"
    /\ IF RequestValid(payload[r])
       THEN /\ pc' = [pc EXCEPT ![r] = "handling"]
            /\ UNCHANGED response
       ELSE /\ pc' = [pc EXCEPT ![r] = "done"]
            /\ response' = [response EXCEPT ![r] = ValidationError]
    /\ UNCHANGED <<model, payload, calls, raised>>

\* faulty variant: the outcome is kept in a process-wide variable that every
\* request in flight reads its response from
FinishShared(r, out) ==
    /\ pc' = [pc EXCEPT ![r] = "done"]
    /\ response' = [s \in Reqs |->
                      IF s = r \/ pc[s] = "handling" THEN out.response ELSE response[s]]
    /\ calls' = [calls EXCEPT ![r] = out.calls]
    /\ raised' = [raised EXCEPT ![r] = out.raised]
    /\ UNCHANGED <<model, payload>>

\* the handler of request r ran and left outcome out
Finish(r, out) ==
    /\ pc' = [pc EXCEPT ![r] = "done"]
    /\ response' = [response EXCEPT ![r] = out.response]
    /\ calls' = [calls EXCEPT ![r] = out.calls]
    /\ raised' = [raised EXCEPT ![r] = out.raised]
    /\ UNCHANGED <<model, payload>>

Handling(r, path) == pc[r] = "handling" /\ payload[r].path = path

HealthCheck(r) ==
    /\ Handling(r, "/health")
    /\ \E fault \in Faults(1) : Finish(r, health_check(model, fault))

Root(r) ==
    /\ Handling(r, "/")
    /\ Finish(r, root)

EmbedText(r) ==
    /\ Handling(r, "/embed")
    /\ \E fault \in Faults(1) : Finish(r, embed_text(model, payload[r].body, fault))

EmbedBatch(r) ==
    /\ Handling(r, "/embed/batch")
    /\ \E fault \in Faults(1) : Finish(r, embed_batch(model, payload[r].body, fault))

CalculateSimilarity(r) ==
    /\ Handling(r, "/similarity")
    /\ \E fault \in Faults(2) :
          Finish(r, calculate_similarity(model, payload[r].body, fault))

FindSimilar(r) ==
    /\ Handling(r, "/similarity/batch")
    /\ \E fault \in Faults(3), tie \in TieOrders(Len(payload[r].body.candidates)) :
          Finish(r, find_similar(model, payload[r].body, fault, tie))

\* the response is sent and the request is over
Respond(r) ==
    /\ pc[r] = "done"
    /\ pc' = [pc EXCEPT ![r] = "idle"]
    /\ payload' = [payload EXCEPT ![r] = NoRequest]
    /\ response' = [response EXCEPT ![r] = NoResponse]
    /\ calls' = [calls EXCEPT ![r] = <<>>]
    /\ raised' = [raised EXCEPT ![r] = ""]
    /\ UNCHANGED model

Serve(r) ==
    \/ Validate(r)
    \/ HealthCheck(r)
    \/ Root(r)
    \/ EmbedText(r)
    \/ EmbedBatch(r)
    \/ CalculateSimilarity(r)
    \/ FindSimilar(r)
    \/ Respond(r)

\* one request at a time, over every input
Next == Receive(1, Payloads) \/ Serve(1)

Spec == Init /\ [][Next]_vars

\* requests served concurrently
NextConc == \E r \in Reqs : Receive(r, ConcPayloads) \/ Serve(r)

SpecConc == Init /\ [][NextConc]_vars

(***************************************************************************)
(* Properties.                                                             *)
(***************************************************************************)
Answered(r, path, status) ==
    pc[r] = "done" /\ payload[r].path = path /\ response[r].status = status

Ranked(r) == Answered(r, "/similarity/batch", 200)

\* the score of candidate position i of request r: cosine of query and candidate
ScoreOf(r, i) ==
    Cosine(Encode(model, payload[r].body.query),
           Encode(model, payload[r].body.candidates[i]))

\* the candidate positions (1-based) the response of r returns
Returned(r) ==
    { response[r].body.results[k].index + 1 : k \in 1..Len(response[r].body.results) }

\* C1: every accepted ranking request gets min(top_k, len(candidates)) results,
\* top_k being 10 when the request supplies no integer.
ResultsLengthIsMinTopK ==
    \A r \in Reqs :
        Ranked(r) =>
            LET k == payload[r].body.top_k
                top_k == IF k.t = "int" THEN k.v ELSE DefaultTopK
            IN Len(response[r].body.results)
                 = Min(top_k, Len(payload[r].body.candidates))

\* C2: the results are in non-increasing order of score, and no candidate left
\* out scores strictly more than a returned one.
ResultsAreTopDescending ==
    \A r \in Reqs :
        Ranked(r) =>
            LET res == response[r].body.results
                n == Len(payload[r].body.candidates)
                back == Returned(r)
            IN /\ \A k \in 1..(Len(res) - 1) : res[k].score >= res[k + 1].score
               /\ \A i \in (1..n) \ back :
                    \A k \in 1..Len(res) : ScoreOf(r, i) <= res[k].score

ResultsAreTopDescendingWitness ==
    \E r \in Reqs :
        /\ Ranked(r)
        /\ Len(response[r].body.results) = 2
        /\ Len(payload[r].body.candidates) = 3
        /\ response[r].body.results[1].score > response[r].body.results[2].score
        /\ \E i \in 1..3 : i \notin Returned(r) /\ ScoreOf(r, i) < response[r].body.results[2].score

\* C3: results with equal scores come in ascending order of candidate index, and
\* a tie across the cut keeps the smaller indices.
TiesInIndexOrder ==
    \A r \in Reqs :
        Ranked(r) =>
            LET res == response[r].body.results
                n == Len(payload[r].body.candidates)
                back == Returned(r)
            IN /\ \A k, l \in 1..Len(res) :
                    (k < l /\ res[k].score = res[l].score) => res[k].index < res[l].index
               /\ \A i \in (1..n) \ back :
                    \A k \in 1..Len(res) :
                        ScoreOf(r, i) = res[k].score => res[k].index < i - 1

\* C4: every result names a distinct valid candidate, with that candidate's text
\* and its cosine similarity to the query.
ResultsNameCandidates ==
    \A r \in Reqs :
        Ranked(r) =>
            LET res == response[r].body.results
                cs == payload[r].body.candidates
            IN /\ \A k \in 1..Len(res) :
                    /\ 0 <= res[k].index /\ res[k].index < Len(cs)
                    /\ res[k].text = cs[res[k].index + 1]
                    /\ res[k].score = ScoreOf(r, res[k].index + 1)
               /\ \A k, l \in 1..Len(res) : k # l => res[k].index # res[l].index

ResultsNameCandidatesWitness ==
    \E r \in Reqs :
        /\ Ranked(r)
        /\ Len(response[r].body.results) = 3
        /\ response[r].body.results[1].index = 2
        /\ response[r].body.results[1].text # response[r].body.results[2].text

\* the single-text fields of a request body
TextFields(p) ==
    CASE p.path = "/embed"            -> {p.body.text}
      [] p.path = "/similarity"       -> {p.body.text1, p.body.text2}
      [] p.path = "/similarity/batch" -> {p.body.query}
      [] OTHER                        -> {}

\* a payload the stated ranges exclude
OutOfRange(p) ==
    \/ \E t \in TextFields(p) : StrLen(t) = 0 \/ StrLen(t) > MaxTextLength
    \/ p.path = "/embed/batch"
         /\ (Len(p.body.texts) = 0 \/ Len(p.body.texts) > MaxTexts)
    \/ p.path = "/similarity/batch"
         /\ \/ Len(p.body.candidates) = 0
            \/ Len(p.body.candidates) > MaxCandidates
            \/ p.body.top_k.t = "int" /\ (p.body.top_k.v < 1 \/ p.body.top_k.v > MaxTopK)

\* a payload exactly on a bound: a 10000-character text or 1000 candidates
OnBound(p) ==
    \/ \E t \in TextFields(p) : StrLen(t) = MaxTextLength
    \/ p.path = "/similarity/batch" /\ Len(p.body.candidates) = MaxCandidates

Validated(r) == pc[r] \in {"handling", "done"}
Rejected(r) == pc[r] = "done" /\ response[r].status = 422

\* C5: an out-of-range payload is refused with a validation error before any
\* model call, and a payload exactly on a bound is accepted.
ValidationGatesModel ==
    \A r \in Reqs :
        Validated(r) =>
            /\ OutOfRange(payload[r]) => Rejected(r)
            /\ Rejected(r) => calls[r] = <<>>
            /\ (OnBound(payload[r]) /\ ~OutOfRange(payload[r])) => ~Rejected(r)

ValidationGatesModelWitness ==
    \E r \in Reqs :
        /\ Rejected(r)
        /\ payload[r].path = "/similarity/batch"
        /\ Len(payload[r].body.candidates) = MaxCandidates + 1
        /\ calls[r] = <<>>

\* C6: every failure raised while a request is served ends it with a 500 whose
\* detail is the failure's message.
FailureIsServerErrorWithMessage ==
    \A r \in Reqs :
        (pc[r] = "done" /\ raised[r] # "") =>
            /\ response[r].status = 500
            /\ "detail" \in DOMAIN response[r].body
            /\ response[r].body.detail = raised[r]

\* C7: the batch embedding response is 1:1 with the input and in its order.
EmbedBatchOneToOne ==
    \A r \in Reqs :
        Answered(r, "/embed/batch", 200) =>
            LET texts == payload[r].body.texts
                out == response[r].body
            IN /\ out.count = Len(texts)
               /\ Len(out.vectors) = Len(texts)
               /\ \A i \in 1..Len(texts) : out.vectors[i] = Encode(model, texts[i])
               /\ out.dimensions = Len(out.vectors[1])
               /\ out.dimensions # 0

EmbedBatchOneToOneWitness ==
    \E r \in Reqs :
        /\ Answered(r, "/embed/batch", 200)
        /\ Len(payload[r].body.texts) = 2
        /\ response[r].body.vectors[1] # response[r].body.vectors[2]
        /\ response[r].body.count = 2

\* C9: top_k given as null passes validation and the response then holds every
\* candidate, beyond the default 10 and the maximum 100.
NullTopKReturnsAll ==
    \A r \in Reqs :
        ( /\ Validated(r)
          /\ payload[r].path = "/similarity/batch"
          /\ payload[r].body.top_k = None
          /\ ~OutOfRange(payload[r]) ) =>
            /\ ~Rejected(r)
            /\ Ranked(r) =>
                 Len(response[r].body.results) = Len(payload[r].body.candidates)

NullTopKReturnsAllWitness ==
    \E r \in Reqs :
        /\ Ranked(r)
        /\ payload[r].body.top_k = None
        /\ Len(response[r].body.results) > MaxTopK

\* a list item the single-text range would exclude
BadItem(t) == StrLen(t) = 0 \/ StrLen(t) > MaxTextLength

\* C10: the list endpoints check the list size only: a list with an empty or
\* over-long item is accepted and passed to the model with that item.
ListItemsNotValidated ==
    \A r \in Reqs :
        Validated(r) =>
            /\ ( /\ payload[r].path = "/embed/batch"
                 /\ ~OutOfRange(payload[r])
                 /\ \E i \in 1..Len(payload[r].body.texts) : BadItem(payload[r].body.texts[i]) )
               => /\ ~Rejected(r)
                  /\ pc[r] = "done" => calls[r][1] = Call("encode", payload[r].body.texts)
            /\ ( /\ payload[r].path = "/similarity/batch"
                 /\ ~OutOfRange(payload[r])
                 /\ \E i \in 1..Len(payload[r].body.candidates) :
                        BadItem(payload[r].body.candidates[i]) )
               => /\ ~Rejected(r)
                  /\ Ranked(r) => calls[r][2] = Call("encode", payload[r].body.candidates)

ListItemsNotValidatedWitness ==
    \E r \in Reqs :
        /\ Answered(r, "/embed/batch", 200)
        /\ \E i \in 1..Len(payload[r].body.texts) : payload[r].body.texts[i] = EmptyStr
        /\ \E i \in 1..Len(payload[r].body.texts) : StrLen(payload[r].body.texts[i]) > MaxTextLength
        /\ calls[r][1].arg = payload[r].body.texts

\* the responses request p can get when it is served alone by model m
ResponsesAlone(m, p) ==
    IF ~RequestValid(p) THEN {ValidationError}
    ELSE CASE p.path = "/health" ->
                { health_check(m, f).response : f \in Faults(1) }
           [] p.path = "/" -> { root.response }
           [] p.path = "/embed" ->
                { embed_text(m, p.body, f).response : f \in Faults(1) }
           [] p.path = "/embed/batch" ->
                { embed_batch(m, p.body, f).response : f \in Faults(1) }
           [] p.path = "/similarity" ->
                { calculate_similarity(m, p.body, f).response : f \in Faults(2) }
           [] p.path = "/similarity/batch" ->
                { find_similar(m, p.body, f, t).response :
                    f \in Faults(3), t \in TieOrders(Len(p.body.candidates)) }

\* what the service holds about request r
Slot(r) == <<pc[r], payload[r], response[r], calls[r], raised[r]>>

\* C8: no step changes the model handle; a request's response is one it gets when
\* served alone; and a step of one request (whatever its outcome) leaves every
\* other request as it was.
RequestsIndependent ==
    [][ /\ model' = model
        /\ \A r \in Reqs :
             /\ (pc[r] # "done" /\ pc'[r] = "done") =>
                    response'[r] \in ResponsesAlone(model, payload[r])
             /\ pc'[r] = pc[r] => Slot(r)' = Slot(r) ]_vars

RequestsIndependentWitness ==
    /\ Answered(1, "/embed", 200)
    /\ Answered(2, "/embed", 500)
    /\ payload[1] = payload[2]
    /\ raised[1] = "" /\ raised[2] # ""

====
